---- MODULE Spec2Model ----
(***************************************************************************)
(* A model of the Bewerbung generator: input-file selection, filename      *)
(* identifier extraction, output-directory naming, the AI content cache,   *)
(* the provider factory and the orchestrator (main, steps 0 to 6).         *)
(*                                                                         *)
(* File names are sequences of one-character strings.  The regular         *)
(* expressions of the source are operators on these sequences, computed    *)
(* the way re.match computes them (anchored at the start only, greedy,     *)
(* '.' not matching a line break).                                         *)
(***************************************************************************)
EXTENDS Integers, Sequences, FiniteSets, TLC

VARIABLES
    \* ---- file selection (steps 1 and 2)
    profilDir,        \* profil/: [exists, listing]; listing is the iterdir() order
    stellenDir,       \* Stellenbeschreibung/: [exists, listing]
    selProfile,       \* what read_newest_profile returned, or not called yet
    selJob,           \* what read_newest_job_description returned
    \* ---- identifier extraction and output directory (step 3)
    argProfile,       \* the profile file name handed to step 3
    argJob,           \* the job file name handed to step 3
    ret,              \* what the last call of step 3 returned or raised
    ausgabe,          \* Ausgabe/: [exists, sub]; sub maps a directory name to its entries
    ausgabeBefore,    \* Ausgabe/ as it was when the last call of step 3 started
    \* ---- content cache and provider client
    cacheFile,        \* .cache/ai_content_cache.json: [exists, entries]
    client,           \* the provider client: [provider, available, use_cache, mem]
    stored,           \* per key, the response last handed to set() of this cache object
    last,             \* the last call on the client or its cache and what it returned
    \* ---- client factory and main
    env,              \* environment variables and what is installed and reachable
    fcall,            \* the last call of a factory method and its result
    pc,               \* the step main() is at
    args,             \* the command line flags
    outDir,           \* the contents of the output directory of this run
    gen,              \* what step 4 returned or raised
    exitCode          \* the value main() returned, -1 before it returns

varsSel  == <<profilDir, stellenDir, selProfile, selJob>>
varsName == <<argProfile, argJob, ret, ausgabe, ausgabeBefore>>
varsCache == <<cacheFile, client, stored, last>>
varsRun  == <<env, fcall, pc, args, outDir, gen, exitCode>>
vars     == <<profilDir, stellenDir, selProfile, selJob,
              argProfile, argJob, ret, ausgabe, ausgabeBefore,
              cacheFile, client, stored, last,
              env, fcall, pc, args, outDir, gen, exitCode>>

-----------------------------------------------------------------------------
(* Characters and strings                                                  *)

\* The characters used, in code-point order (Python compares str by code point).
OrdTable ==
    << "\n", "-", ".", "0", "1", "2", "3", "4", "5", "6", "7", "8", "9",
       "D", "E", "O", "S", "_", "a", "b", "d", "e", "f", "g", "i", "k", "n",
       "o", "p", "r", "s", "t", "v", "x", "z" >>

Ord(c) == CHOOSE i \in 1..Len(OrdTable) : OrdTable[i] = c

Digits == {"0", "1", "2", "3", "4", "5", "6", "7", "8", "9"}

\* str < str of Python: lexicographic by code point, a proper prefix is smaller.
RECURSIVE StrLess(_, _)
StrLess(a, b) ==
    IF b = <<>> THEN FALSE
    ELSE IF a = <<>> THEN TRUE
    ELSE IF Head(a) # Head(b) THEN Ord(Head(a)) < Ord(Head(b))
    ELSE StrLess(Tail(a), Tail(b))

\* The width of the date prefix: \d{8}.
DateLen == 8

PdfExt == <<".", "p", "d", "f">>
TxtExt == <<".", "t", "x", "t">>

\* '.' of a Python regular expression (no DOTALL): any character but a line break.
DotMatches(c) == c # "\n"

\* (\d{8})_ at the start of the name.
HasDatePrefix(name) ==
    /\ Len(name) >= DateLen + 1
    /\ \A i \in 1..DateLen : name[i] \in Digits
    /\ name[DateLen + 1] = "_"

\* The positions k at which the literal suffix \.ext of the pattern can start:
\* everything between the '_' and k is matched by '.*'.
ExtStarts(name, ext) ==
    { k \in (DateLen + 2)..(Len(name) - Len(ext) + 1) :
        /\ \A i \in (DateLen + 2)..(k - 1) : DotMatches(name[i])
        /\ SubSeq(name, k, k + Len(ext) - 1) = ext }

\* re.match(r"(\d{8})_.*\.ext", name): anchored at the start, not at the end.
MatchesPattern(name, ext) ==
    HasDatePrefix(name) /\ ExtStarts(name, ext) # {}

Max(S) == CHOOSE x \in S : \A y \in S : y <= x

\* group(1) of the match.
DateGroup(name) == SubSeq(name, 1, DateLen)

\* A lazy group (.*?) in place of the greedy one: the suffix at its first position.
IdGroupLazy(name, ext) ==
    SubSeq(name, DateLen + 2, (CHOOSE k \in ExtStarts(name, ext) :
                                  \A m \in ExtStarts(name, ext) : k <= m) - 1)

\* group(2) of re.match(r"(\d{8})_(.*)\.ext", name): '.*' is greedy, so the
\* suffix is taken at its last possible position.
IdGroup(name, ext) == SubSeq(name, DateLen + 2, Max(ExtStarts(name, ext)) - 1)

-----------------------------------------------------------------------------
(* Step 1 and 2: get_newest_file_by_date_pattern                            *)

None == [kind |-> "none", name |-> <<>>]
NotCalled == [kind |-> "notcalled", name |-> <<>>]
File(n) == [kind |-> "file", name |-> n]

\* files.append((date_str, file_path)) for each regular file that matches,
\* in the order iterdir() lists them.
RECURSIVE CollectFiles(_, _)
CollectFiles(listing, ext) ==
    IF listing = <<>> THEN <<>>
    ELSE LET e == Head(listing)
             rest == CollectFiles(Tail(listing), ext)
         IN IF e.isFile /\ MatchesPattern(e.name, ext)
            THEN <<[date |-> DateGroup(e.name), name |-> e.name]>> \o rest
            ELSE rest

\* The sort without reverse=True: the oldest date first.
DateBeforeAscending(a, b) == StrLess(a.date, b.date)

\* The sort key comparison of files.sort(key=lambda x: x[0], reverse=True):
\* a comes strictly before b.
DateBefore(a, b) == StrLess(b.date, a.date)

\* list.sort is stable, also with reverse=True: equal keys keep their order.
RECURSIVE InsertSorted(_, _)
InsertSorted(x, sorted) ==
    IF sorted = <<>> THEN <<x>>
    ELSE IF DateBefore(x, Head(sorted)) THEN <<x>> \o sorted
    ELSE <<Head(sorted)>> \o InsertSorted(x, Tail(sorted))

RECURSIVE SortFiles(_)
SortFiles(files) ==
    IF files = <<>> THEN <<>>
    ELSE LET n == Len(files)
         IN InsertSorted(files[n], SortFiles(SubSeq(files, 1, n - 1)))

get_newest_file_by_date_pattern(dir, ext) ==
    IF ~dir.exists THEN None
    ELSE LET files == CollectFiles(dir.listing, ext)
         IN IF files = <<>> THEN None
            ELSE File(SortFiles(files)[1].name)

-----------------------------------------------------------------------------
(* ContentCache, AIContentRequest, AIContentResponse                        *)

\* Two of the content types of ContentType.
ContentTypes == {"einstiegstext", "abschlusstext"}

\* A text is its first 100 characters and what follows them.
JobText == [prefix |-> "Adressat: BWI GmbH", rest |-> "Senior DevOps Engineer"]
\* Another job description with the same first 100 characters.
JobTextSamePrefix == [prefix |-> "Adressat: BWI GmbH", rest |-> "Data Engineer"]
ProfileText == [prefix |-> "Profile: 20250604_dr_setz.pdf", rest |-> ""]

\* text[:100]
Truncate(text) == text.prefix

Requests ==
    [content_type : ContentTypes, job_description : {JobText, JobTextSamePrefix},
     profile_content : {ProfileText}, company_name : {"BWI GmbH"},
     position_title : {"Senior DevOps Engineer"}]

\* ContentCache._generate_key: md5 of "{content_type.value}:{job[:100]}:{profile[:100]}"
generate_key(request) ==
    <<request.content_type, Truncate(request.job_description),
      Truncate(request.profile_content)>>

Keys == { generate_key(r) : r \in Requests }

\* A member of the enumeration ContentType, and its value as JSON stores it.
EnumOf(v) == [form |-> "enum", value |-> v]
StrOf(v) == [form |-> "str", value |-> v]

NoResponse ==
    [content_type |-> StrOf("none"), generated_text |-> "", confidence |-> "",
     tokens_used |-> 0, processing_time |-> "", metadata |-> ""]

Absent == [present |-> FALSE, data |-> NoResponse]
Present(d) == [present |-> TRUE, data |-> d]

EmptyCache == [k \in Keys |-> Absent]

\* What the provider may answer.
ProviderTexts == {"text A", "text B"}

\* The AIContentResponse built from a successful Claude call.
ClaudeResponse(request, text) ==
    [content_type |-> EnumOf(request.content_type), generated_text |-> text,
     confidence |-> "0.9", tokens_used |-> 120, processing_time |-> "dt",
     metadata |-> "model, input_tokens, output_tokens"]

\* _generate_sample_response
SampleResponse(request) ==
    [content_type |-> EnumOf(request.content_type),
     generated_text |-> <<"sample", request.content_type>>,
     confidence |-> "0.5", tokens_used |-> 0, processing_time |-> "dt",
     metadata |-> "source: sample_content"]

\* ContentCache._load_cache: the JSON object of the file, an empty cache without file.
load_cache(file) == IF file.exists THEN file.entries ELSE EmptyCache

\* json.dumps(self._cache): a ContentType member is not JSON serializable.
Serializable(mem) == \A k \in Keys : mem[k].present => mem[k].data.content_type.form = "str"

\* ContentCache._save_cache
save_cache(mem, file) ==
    IF Serializable(mem)
    THEN [raised |-> "none", file |-> [exists |-> TRUE, entries |-> mem]]
    ELSE [raised |-> "TypeError", file |-> file]

\* The conversion of get(): cached_data['content_type'] = ContentType(...), in place.
ToEnum(data) == [data EXCEPT !.content_type = EnumOf(@.value)]

\* The get() that hands the stored dictionary on without the conversion.
cache_get_raw(mem, request) ==
    LET e == mem[generate_key(request)]
    IN [raised |-> "none", hit |-> e.present, response |-> e.data, mem |-> mem]

\* The values of the members of ContentType.
AllContentTypes ==
    {"einstiegstext", "fachliche_passung", "motivationstext", "mehrwert",
     "abschlusstext", "berufserfahrung_enhanced", "ausbildung_enhanced",
     "fachkenntnisse_enhanced"}

\* ContentCache.get: the response and the cache after the call. ContentType(value)
\* raises ValueError for a string that is no value of the enumeration.
cache_get(mem, request) ==
    LET k == generate_key(request)
        e == mem[k]
    IN IF ~e.present
       THEN [raised |-> "none", hit |-> FALSE, response |-> NoResponse, mem |-> mem]
       ELSE IF e.data.content_type.form = "str"
               /\ e.data.content_type.value \notin AllContentTypes
       THEN [raised |-> "ValueError", hit |-> FALSE, response |-> NoResponse,
             mem |-> mem]
       ELSE [raised |-> "none", hit |-> TRUE, response |-> ToEnum(e.data),
             mem |-> [mem EXCEPT ![k] = Present(ToEnum(e.data))]]

\* asdict(response) with content_type replaced by its value.
ToDict(response) == [response EXCEPT !.content_type = StrOf(@.value)]

\* ContentCache.set: the entry is assigned, then the whole cache is written.
cache_set(mem, file, request, response) ==
    LET mem2 == [mem EXCEPT ![generate_key(request)] = Present(ToDict(response))]
        saved == save_cache(mem2, file)
    IN [raised |-> saved.raised, mem |-> mem2, file |-> saved.file]

\* ContentCache.clear
cache_clear(mem, file) ==
    LET saved == save_cache(EmptyCache, file)
    IN [raised |-> saved.raised, mem |-> EmptyCache, file |-> saved.file]

NoLast ==
    [op |-> "none", request |-> <<>>, response |-> NoResponse, raised |-> "none",
     providerCalled |-> FALSE, storedBefore |-> Absent, outcome |-> "none"]

\* No request has a response that set() was given and that is still in place.
NothingStored == [q \in Requests |-> Absent]

\* The state of the cache variables in the specifications that do not use them.
CacheIdle ==
    /\ cacheFile = [exists |-> FALSE, entries |-> EmptyCache]
    /\ client = [provider |-> "none", available |-> FALSE, use_cache |-> FALSE,
                 mem |-> EmptyCache]
    /\ stored = NothingStored
    /\ last = NoLast

-----------------------------------------------------------------------------
(* Environment, command line, output directory of a run                     *)

\* The clients of the tests that replace AIClientFactory by a mock: each is
\* named by the folder its get_client_model_folder returns.
MockClients == {"llama_3-2-latest", "claude_sonnet-3-5", "sample_content"}

\* The step of the provider loop at which a client raises, "none" if at none.
LoopSteps == {"extract", "generate", "render", "save"}
NoFailure == [c \in MockClients |-> "none"]

\* The defaults: nothing set in the environment, everything installed, no
\* provider reachable.
DefaultEnv ==
    [AI_PROVIDER |-> "auto", claude |-> "unavailable", llamaServer |-> "down",
     GENERATE_ALL_PROVIDERS |-> TRUE, imports |-> TRUE, weasyprint |-> "ok",
     pdfMkdir |-> "ok", CLEAR_CACHE_ON_START |-> "unset", unlink |-> "ok",
     factory |-> "repository", mockClients |-> <<>>, fails |-> NoFailure]

NoArgs == [clear_cache |-> FALSE, no_cache |-> FALSE, keep_cache |-> FALSE]

\* An output directory without entries. folders: [name, files, pdf, pdfFiles].
NoOutDir == [files |-> {}, folders |-> {}, pdf |-> FALSE, pdfFiles |-> {}]

NoGen == [called |-> FALSE, raised |-> "none", keys |-> {}, pdf_dir |-> <<>>]

NoCall == [method |-> "none", kwargs |-> {}, raised |-> "none", clients |-> <<>>]

\* The state of the factory and main variables in the specifications that do
\* not use them.
RunIdle ==
    /\ env = DefaultEnv
    /\ fcall = NoCall
    /\ pc = "idle"
    /\ args = NoArgs
    /\ outDir = NoOutDir
    /\ gen = NoGen
    /\ exitCode = -1

-----------------------------------------------------------------------------
(* File names of the examples and of the tests                              *)

D0230 == <<"2", "0", "2", "5", "0", "2", "3", "0">>
D0604 == <<"2", "0", "2", "5", "0", "6", "0", "4">>
D0624 == <<"2", "0", "2", "5", "0", "6", "2", "4">>
D0701 == <<"2", "0", "2", "5", "0", "7", "0", "1">>
\* A prefix of eight digits that is no date of the calendar: June 31.
D0631 == <<"2", "0", "2", "5", "0", "6", "3", "1">>

IdSetz == <<"d", "r", "_", "s", "e", "t", "z">>
IdJob  == <<"6", "1", "3", "8", "3", "_", "S", "e", "n", "i", "o", "r",
            "D", "e", "v", "O", "p", "s", "E", "n", "g", "i", "n", "e", "e", "r">>
IdA    == <<"a">>
IdDash == <<"x", "-", "y">>
IdPdf  == <<"a", ".", "p", "d", "f">>
IdTxt  == <<"b", ".", "t", "x", "t">>
IdNone == <<>>
\* An identifier that holds a '-', a date and a '_': a-20250624_a
IdJoined == IdA \o <<"-">> \o <<"2", "0", "2", "5", "0", "6", "2", "4">> \o <<"_">> \o IdA
BakExt == <<".", "b", "a", "k">>

Dates == {D0230, D0604, D0624}
Ids == {IdSetz, IdJob, IdA, IdDash, IdPdf, IdTxt, IdNone}

\* date_id.ext
Compose(date, id, ext) == date \o <<"_">> \o id \o ext

SeqsUpTo(S, n) == UNION { [1..k -> S] : k \in 0..n }

Injective(s) == \A i, j \in 1..Len(s) : s[i].name = s[j].name => i = j

Entry(n, f) == [name |-> n, isFile |-> f]

\* What profil/ may hold: matching files, a tie on the newest date, a name without
\* date, a newer file with the wrong extension, a newer directory, a backup copy,
\* a file whose prefix is no calendar date.
ProfileEntries ==
    { Entry(Compose(D0604, IdSetz, PdfExt), TRUE),
      Entry(Compose(D0631, IdA, PdfExt), TRUE),
      Entry(Compose(D0624, IdA, PdfExt), TRUE),
      Entry(Compose(D0624, IdDash, PdfExt), TRUE),
      Entry(<<"b", "a", "d">> \o PdfExt, TRUE),
      Entry(Compose(D0701, IdA, TxtExt), TRUE),
      Entry(Compose(D0701, IdA, PdfExt), FALSE),
      Entry(Compose(D0624, IdA, PdfExt \o BakExt), TRUE) }

JobEntries ==
    { Entry(Compose(D0624, IdJob, TxtExt), TRUE),
      Entry(Compose(D0604, IdA, TxtExt), TRUE),
      Entry(Compose(D0701, IdA, TxtExt), FALSE),
      Entry(Compose(D0701, IdA, TxtExt \o BakExt), TRUE) }

\* The longest directory listing explored.
MaxDirEntries == 2

Listings(pool) == { s \in SeqsUpTo(pool, MaxDirEntries) : Injective(s) }

Dirs(pool) ==
    {[exists |-> FALSE, listing |-> <<>>]}
        \cup { [exists |-> TRUE, listing |-> l] : l \in Listings(pool) }

-----------------------------------------------------------------------------
(* Specification SpecSel: steps 1 and 2 on every directory content          *)

NoRet == [op |-> "none", raised |-> "none", value |-> <<>>]
NoAusgabe == [exists |-> FALSE, sub |-> {}]

\* The state of the selection and naming variables in the specifications
\* that do not use them.
SelIdle ==
    /\ profilDir = [exists |-> FALSE, listing |-> <<>>]
    /\ stellenDir = [exists |-> FALSE, listing |-> <<>>]
    /\ selProfile = NotCalled
    /\ selJob = NotCalled

NameIdle ==
    /\ argProfile = <<>>
    /\ argJob = <<>>
    /\ ret = NoRet
    /\ ausgabe = NoAusgabe
    /\ ausgabeBefore = NoAusgabe

InitSel ==
    /\ profilDir \in Dirs(ProfileEntries)
    /\ stellenDir \in Dirs(JobEntries)
    /\ selProfile = NotCalled
    /\ selJob = NotCalled
    /\ argProfile = <<>>
    /\ argJob = <<>>
    /\ ret = NoRet
    /\ ausgabe = NoAusgabe
    /\ ausgabeBefore = NoAusgabe
    /\ CacheIdle
    /\ RunIdle

read_newest_profile ==
    /\ selProfile' = get_newest_file_by_date_pattern(profilDir, PdfExt)
    /\ UNCHANGED <<profilDir, stellenDir, selJob>>
    /\ UNCHANGED <<varsName, varsCache, varsRun>>

read_newest_job_description ==
    /\ selJob' = get_newest_file_by_date_pattern(stellenDir, TxtExt)
    /\ UNCHANGED <<profilDir, stellenDir, selProfile>>
    /\ UNCHANGED <<varsName, varsCache, varsRun>>

NextSel == read_newest_profile \/ read_newest_job_description

SpecSel == InitSel /\ [][NextSel]_vars

\* The regular files of a directory that match the kind's pattern.
Matching(dir, ext) ==
    { e.name : e \in { dir.listing[i] : i \in 1..Len(dir.listing) } \cap
                      { x \in ProfileEntries \cup JobEntries :
                            x.isFile /\ MatchesPattern(x.name, ext) } }

\* d is not smaller than any date among the names of S.
GreatestDate(n, S) == \A m \in S : ~StrLess(DateGroup(n), DateGroup(m))

SelectorContract(dir, ext, sel) ==
    sel # NotCalled =>
        IF dir.exists /\ Matching(dir, ext) # {}
        THEN /\ sel.kind = "file"
             /\ sel.name \in Matching(dir, ext)
             /\ GreatestDate(sel.name, Matching(dir, ext))
        ELSE sel = None

\* C1: the selector returns a matching regular file whose date prefix is the
\* greatest among the matching files, and None (no exception) when the directory
\* does not exist or holds no matching file.
C1_NewestSelected ==
    /\ SelectorContract(profilDir, PdfExt, selProfile)
    /\ SelectorContract(stellenDir, TxtExt, selJob)

\* Two matching profiles of different dates, listed oldest first, and the newest
\* one was returned; the job directory does not exist and None was returned.
C1_Witness ==
    /\ Len(profilDir.listing) = 2
    /\ Matching(profilDir, PdfExt) = { profilDir.listing[1].name, profilDir.listing[2].name }
    /\ StrLess(DateGroup(profilDir.listing[1].name), DateGroup(profilDir.listing[2].name))
    /\ selProfile = File(profilDir.listing[2].name)
    /\ ~stellenDir.exists
    /\ selJob = None

-----------------------------------------------------------------------------
(* Step 3: extract_file_identifiers and create_output_directory             *)

Returned(o, v) == [op |-> o, raised |-> "none", value |-> v]
Raised(o, e) == [op |-> o, raised |-> e, value |-> <<>>]

\* Returns (profile_date, profile_id, job_date, job_id) or raises ValueError.
extract_file_identifiers(profile, job) ==
    IF ~MatchesPattern(profile, PdfExt)
    THEN Raised("extract", "ValueError: Invalid profile filename format")
    ELSE IF ~MatchesPattern(job, TxtExt)
    THEN Raised("extract", "ValueError: Invalid job filename format")
    ELSE Returned("extract", << DateGroup(profile), IdGroup(profile, PdfExt),
                                DateGroup(job), IdGroup(job, TxtExt) >>)

\* f"{job_date}_{job_id}-{profile_date}_{profile_id}"
output_dir_name(ids) ==
    ids[3] \o <<"_">> \o ids[4] \o <<"-">> \o ids[1] \o <<"_">> \o ids[2]

DirNames(sub) == { d.name : d \in sub }
EntriesOf(sub, n) == (CHOOSE d \in sub : d.name = n).entries

\* Path.mkdir(exist_ok=...) of a directory below Ausgabe/: a directory that is
\* already there is left as it is, or FileExistsError without exist_ok.
Mkdir(sub, n, existOk) ==
    IF n \in DirNames(sub)
    THEN IF existOk THEN [raised |-> "none", sub |-> sub]
         ELSE [raised |-> "FileExistsError", sub |-> sub]
    ELSE [raised |-> "none", sub |-> sub \cup {[name |-> n, entries |-> {}]}]

\* mkdir() without exist_ok.
MkdirOutputPathOnce(sub, n) == Mkdir(sub, n, FALSE)

\* output_path.mkdir(exist_ok=True)
MkdirOutputPath(sub, n) == Mkdir(sub, n, TRUE)

\* The names step 3 is run on: what steps 1 and 2 can return, and names that
\* do not have the format.
Step3Profiles ==
    { Compose(D0604, IdSetz, PdfExt), Compose(D0624, IdA, PdfExt),
      <<"b", "a", "d">> \o PdfExt, Compose(D0624, IdA, PdfExt \o BakExt) }

Step3Jobs ==
    { Compose(D0624, IdJob, TxtExt), Compose(D0604, IdA, TxtExt),
      <<"b", "a", "d">> \o TxtExt, Compose(D0701, IdA, TxtExt \o BakExt) }

\* The number of output directories explored below Ausgabe/.
MaxOutputDirs == 2

create_output_directory(profile, job) ==
    LET ids == extract_file_identifiers(profile, job)
        name == output_dir_name(ids.value)
        made == MkdirOutputPath(ausgabe.sub, name)
    IN /\ argProfile' = profile
       /\ argJob' = job
       /\ ausgabeBefore' = ausgabe
       /\ IF ids.raised # "none"
          THEN /\ ret' = Raised("create", ids.raised)
               /\ UNCHANGED ausgabe
          ELSE /\ Cardinality(DirNames(made.sub)) <= MaxOutputDirs
               \* self.ausgabe_dir.mkdir(exist_ok=True), then the output path
               /\ ausgabe' = [exists |-> TRUE, sub |-> made.sub]
               /\ ret' = IF made.raised # "none" THEN Raised("create", made.raised)
                         ELSE Returned("create", name)
       /\ UNCHANGED <<varsSel, varsCache, varsRun>>

\* Step 4 creates a provider folder in an output directory:
\* model_output_dir.mkdir(parents=True, exist_ok=True).
ProviderFolderCreated(n, folder) ==
    /\ n \in DirNames(ausgabe.sub)
    /\ folder \notin EntriesOf(ausgabe.sub, n)
    /\ ausgabe' = [ausgabe EXCEPT !.sub =
            { IF d.name = n THEN [d EXCEPT !.entries = @ \cup {folder}] ELSE d : d \in @ }]
    /\ UNCHANGED <<argProfile, argJob, ret, ausgabeBefore>>
    /\ UNCHANGED <<varsSel, varsCache, varsRun>>

InitOutDir ==
    /\ profilDir = [exists |-> FALSE, listing |-> <<>>]
    /\ stellenDir = [exists |-> FALSE, listing |-> <<>>]
    /\ selProfile = NotCalled
    /\ selJob = NotCalled
    /\ argProfile = <<>>
    /\ argJob = <<>>
    /\ ret = NoRet
    /\ ausgabe \in {NoAusgabe, [exists |-> TRUE, sub |-> {}]}
    /\ ausgabeBefore = ausgabe
    /\ CacheIdle
    /\ RunIdle

NextOutDir ==
    \/ \E p \in Step3Profiles, j \in Step3Jobs : create_output_directory(p, j)
    \/ \E n \in DirNames(ausgabe.sub) : ProviderFolderCreated(n, "sample_content")

SpecOutDir == InitOutDir /\ [][NextOutDir]_vars

AllDates == {D0230, D0604, D0624, D0701}

\* C2: create_output_directory returns {job_date}_{job_id}-{profile_date}_{profile_id}
\* for the two names it is given, also when that directory is already there, and
\* every directory that was there before is still there with its entries.
C2_OutputDirectory ==
    ret.op = "create" =>
        /\ \A pd \in AllDates, jd \in AllDates, pid \in Ids, jid \in Ids :
              (argProfile = Compose(pd, pid, PdfExt) /\ argJob = Compose(jd, jid, TxtExt))
                  => ret = Returned("create", jd \o <<"_">> \o jid \o <<"-">> \o pd \o <<"_">> \o pid)
        /\ ret.raised = "none" =>
              /\ ausgabe.exists
              /\ ret.value \in DirNames(ausgabe.sub)
              /\ \A d \in ausgabeBefore.sub :
                    /\ d.name \in DirNames(ausgabe.sub)
                    /\ d.entries \subseteq EntriesOf(ausgabe.sub, d.name)

\* The example: 20250624_61383_SeniorDevOpsEngineer-20250604_dr_setz
ExampleDirName == D0624 \o <<"_">> \o IdJob \o <<"-">> \o D0604 \o <<"_">> \o IdSetz

\* The directory of the example was created a second time when it already held a
\* provider folder, and the folder is still there.
C2_Witness ==
    /\ argProfile = Compose(D0604, IdSetz, PdfExt)
    /\ argJob = Compose(D0624, IdJob, TxtExt)
    /\ ret = Returned("create", ExampleDirName)
    /\ ExampleDirName \in DirNames(ausgabeBefore.sub)
    /\ EntriesOf(ausgabeBefore.sub, ExampleDirName) = {"sample_content"}
    /\ EntriesOf(ausgabe.sub, ExampleDirName) = {"sample_content"}

-----------------------------------------------------------------------------
(* Specification SpecExtract: extract_file_identifiers on every pair of names *)

\* Names that do not have the format: no date, a date of 7 digits, '-' for '_',
\* a line break in the identifier, the other kind's extension, a backup copy.
Malformed(ext, other) ==
    { <<"b", "a", "d">> \o ext,
      SubSeq(D0604, 1, DateLen - 1) \o <<"_">> \o IdA \o ext,
      D0604 \o <<"-">> \o IdA \o ext,
      Compose(D0604, <<"a", "\n", "b">>, ext),
      Compose(D0604, IdA, other),
      Compose(D0604, IdA, ext \o BakExt) }

ExtractProfiles == { Compose(d, i, PdfExt) : d \in Dates, i \in Ids } \cup Malformed(PdfExt, TxtExt)
ExtractJobs == { Compose(d, i, TxtExt) : d \in Dates, i \in Ids } \cup Malformed(TxtExt, PdfExt)

InitExtract ==
    /\ profilDir = [exists |-> FALSE, listing |-> <<>>]
    /\ stellenDir = [exists |-> FALSE, listing |-> <<>>]
    /\ selProfile = NotCalled
    /\ selJob = NotCalled
    /\ argProfile \in ExtractProfiles
    /\ argJob \in ExtractJobs
    /\ ret = NoRet
    /\ ausgabe = NoAusgabe
    /\ ausgabeBefore = NoAusgabe
    /\ CacheIdle
    /\ RunIdle

ExtractFileIdentifiers ==
    /\ ret' = extract_file_identifiers(argProfile, argJob)
    /\ UNCHANGED <<argProfile, argJob, ausgabe, ausgabeBefore>>
    /\ UNCHANGED <<varsSel, varsCache, varsRun>>

NextExtract == ExtractFileIdentifiers

SpecExtract == InitExtract /\ [][NextExtract]_vars

\* C7: for names composed as date_id.pdf and date'_id'.txt the extraction returns
\* exactly (date, id, date', id').
C7_RoundTrip ==
    ret.op = "extract" =>
        \A pd \in Dates, jd \in Dates, pid \in Ids, jid \in Ids :
            (argProfile = Compose(pd, pid, PdfExt) /\ argJob = Compose(jd, jid, TxtExt))
                => ret = Returned("extract", <<pd, pid, jd, jid>>)

\* The extraction ran on a profile whose identifier itself contains ".pdf" and
\* on the job name of the example.
C7_Witness ==
    /\ argProfile = Compose(D0604, IdPdf, PdfExt)
    /\ argJob = Compose(D0624, IdJob, TxtExt)
    /\ ret = Returned("extract", <<D0604, IdPdf, D0624, IdJob>>)

EndsWith(name, ext) ==
    Len(name) >= Len(ext) /\ SubSeq(name, Len(name) - Len(ext) + 1, Len(name)) = ext

\* The name has an 8-digit date prefix followed by '_' and the extension ext.
WellFormed(name, ext) == HasDatePrefix(name) /\ EndsWith(name, ext)

\* C8: a profile or job name whose date prefix or extension does not match makes
\* extract_file_identifiers fail with a format error.
C8_FormatError ==
    (ret.op = "extract" /\ (~WellFormed(argProfile, PdfExt) \/ ~WellFormed(argJob, TxtExt)))
        => ret.raised # "none"

-----------------------------------------------------------------------------
(* The provider client and its cache (specification SpecCache)              *)

\* A cache file left behind by an earlier run.
EarlierFiles ==
    { [exists |-> FALSE, entries |-> EmptyCache],
      [exists |-> TRUE, entries |-> EmptyCache],
      [exists |-> TRUE,
       entries |-> [k \in Keys |->
                      IF k[1] = "einstiegstext"
                      THEN Present(ToDict(ClaudeResponse(
                               CHOOSE r \in Requests :
                                   /\ generate_key(r) = k
                                   /\ r.job_description = JobText, "text A")))
                      ELSE Absent]],
      \* an entry whose content_type is no value of ContentType
      [exists |-> TRUE,
       entries |-> [k \in Keys |->
                      IF k[1] = "abschlusstext"
                      THEN Present([NoResponse EXCEPT
                               !.content_type = StrOf("summary"),
                               !.generated_text = "text A"])
                      ELSE Absent]] }

\* ClaudeAPIClient.__init__: the cache is loaded when use_cache is set.
InitCache ==
    /\ SelIdle
    /\ NameIdle
    /\ cacheFile \in EarlierFiles
    /\ \E a \in BOOLEAN, u \in BOOLEAN :
         client = [provider |-> "claude", available |-> a, use_cache |-> u,
                   mem |-> IF u THEN load_cache(cacheFile) ELSE EmptyCache]
    /\ stored = NothingStored
    /\ last = NoLast
    /\ RunIdle

\* The outcomes of client.messages.create: a text, or an exception.
ProviderOutcomes == ProviderTexts \cup {"error"}

\* ClaudeAPIClient.generate_content
generate_content(c, file, request, outcome) ==
    LET got == IF c.use_cache THEN cache_get(c.mem, request)
               ELSE [raised |-> "none", hit |-> FALSE, response |-> NoResponse,
                     mem |-> c.mem]
        ai_response == ClaudeResponse(request, outcome)
        put == cache_set(c.mem, file, request, ai_response)
    IN IF got.raised # "none"
       \* the cache is read before the try block
       THEN [raised |-> got.raised, response |-> NoResponse, mem |-> got.mem,
             file |-> file, providerCalled |-> FALSE]
       ELSE IF got.hit
       THEN [raised |-> "none", response |-> got.response, mem |-> got.mem,
             file |-> file, providerCalled |-> FALSE]
       ELSE IF ~c.available
            THEN [raised |-> "none", response |-> SampleResponse(request),
                  mem |-> c.mem, file |-> file, providerCalled |-> FALSE]
            ELSE IF outcome = "error"
                 THEN [raised |-> "none", response |-> SampleResponse(request),
                       mem |-> c.mem, file |-> file, providerCalled |-> TRUE]
                 ELSE IF ~c.use_cache
                      THEN [raised |-> "none", response |-> ai_response,
                            mem |-> c.mem, file |-> file, providerCalled |-> TRUE]
                      ELSE IF put.raised = "none"
                           THEN [raised |-> "none", response |-> ai_response,
                                 mem |-> put.mem, file |-> put.file,
                                 providerCalled |-> TRUE]
                           ELSE [raised |-> "none",
                                 response |-> SampleResponse(request),
                                 mem |-> put.mem, file |-> put.file,
                                 providerCalled |-> TRUE]

\* What set() of this cache object was last given for this very request, unless
\* a clear() or a later set() on the same entry has replaced it since.
StoredFor(request) == stored[request]

\* The record of a set(request, response): it replaces what was stored for
\* every request of the same entry.
StoredAfterSet(request, response) ==
    [q \in Requests |->
        IF q = request THEN Present(response)
        ELSE IF generate_key(q) = generate_key(request) THEN Absent
        ELSE stored[q]]

\* The client after a call with this result and a provider that failed, and
\* that re-reads its availability from the failure.
ClientAfterReprobing(c, r, outcome) ==
    [c EXCEPT !.mem = r.mem,
              !.available = @ /\ ~(r.providerCalled /\ outcome = "error")]

\* The client after generate_content: the call assigns no attribute, only the
\* dictionary of its cache may have changed.
ClientAfter(c, r, outcome) == [c EXCEPT !.mem = r.mem]

GenerateContent(request, outcome) ==
    LET r == generate_content(client, cacheFile, request, outcome)
        cached == client.use_cache /\ r.providerCalled
                  /\ outcome # "error"
    IN /\ client' = ClientAfter(client, r, outcome)
       /\ cacheFile' = r.file
       /\ stored' = IF cached
                    THEN StoredAfterSet(request, ClaudeResponse(request, outcome))
                    ELSE stored
       /\ last' = [op |-> "generate", request |-> request, response |-> r.response,
                   raised |-> r.raised, providerCalled |-> r.providerCalled,
                   storedBefore |-> StoredFor(request), outcome |-> outcome]
       /\ UNCHANGED <<varsSel, varsName, varsRun>>

\* client.cache.get(request)
CacheGet(request) ==
    LET got == cache_get(client.mem, request)
    IN /\ client.use_cache
       /\ client' = [client EXCEPT !.mem = got.mem]
       /\ last' = [op |-> "get", request |-> request, response |-> got.response,
                   raised |-> got.raised, providerCalled |-> FALSE,
                   storedBefore |-> StoredFor(request), outcome |-> "none"]
       /\ UNCHANGED <<cacheFile, stored>>
       /\ UNCHANGED <<varsSel, varsName, varsRun>>

\* client.cache.set(request, response)
CacheSet(request, response) ==
    LET put == cache_set(client.mem, cacheFile, request, response)
    IN /\ client.use_cache
       /\ client' = [client EXCEPT !.mem = put.mem]
       /\ cacheFile' = put.file
       /\ stored' = StoredAfterSet(request, response)
       /\ last' = [op |-> "set", request |-> request, response |-> response,
                   raised |-> put.raised, providerCalled |-> FALSE,
                   storedBefore |-> StoredFor(request), outcome |-> "none"]
       /\ UNCHANGED <<varsSel, varsName, varsRun>>

\* client.cache.clear()
CacheClear ==
    LET cleared == cache_clear(client.mem, cacheFile)
    IN /\ client.use_cache
       /\ client' = [client EXCEPT !.mem = cleared.mem]
       /\ cacheFile' = cleared.file
       /\ stored' = NothingStored
       /\ last' = [NoLast EXCEPT !.op = "clear", !.raised = cleared.raised]
       /\ UNCHANGED <<varsSel, varsName, varsRun>>

NextCache ==
    \/ \E r \in Requests, o \in ProviderOutcomes : GenerateContent(r, o)
    \/ \E r \in Requests : CacheGet(r)
    \/ \E r \in Requests, t \in ProviderTexts : CacheSet(r, ClaudeResponse(r, t))
    \/ CacheClear

SpecCache == InitCache /\ [][NextCache]_vars

\* C6: a get() that follows a set() of an identical request, with no clear() and
\* no other set() for that request in between, returns a response equal to the
\* one that was stored (content type, text, confidence, tokens, metadata); and a
\* generate_content call that finds such an entry returns it without asking the
\* provider.
C6_CacheRoundTrip ==
    /\ (last.op = "get" /\ last.storedBefore.present)
         => last.response = last.storedBefore.data
    /\ (last.op = "generate" /\ last.storedBefore.present)
         => /\ last.response = last.storedBefore.data
            /\ ~last.providerCalled

\* A cache hit of generate_content on an available client, after a set() that
\* replaced an earlier entry of the same key.
C6_Witness ==
    /\ last.op = "generate"
    /\ client.available
    /\ last.storedBefore.present
    /\ last.storedBefore.data.generated_text = "text B"
    /\ last.response = last.storedBefore.data
    /\ ~last.providerCalled
    /\ cacheFile.exists

-----------------------------------------------------------------------------
(* AIClientFactory (specification SpecFactory)                              *)

\* No client: the None of _try_llama_client and _try_claude_client.
NoClient == "None"

\* The positional parameters of BaseAIClient.__init__ after self, and the
\* arguments LlamaAPIClient.__init__ hands to it.
BaseInitParams == <<"base_dir">>
LlamaSuperArgs == <<"base_dir", "use_cache">>

\* A call with more positional arguments than the function has parameters.
CallPositional(params, given) ==
    IF Len(given) > Len(params) THEN "TypeError" ELSE "none"

\* A call with a keyword the function does not have.
CallKeywords(params, kwargs) ==
    IF kwargs \subseteq params THEN "none" ELSE "TypeError"

\* LlamaAPIClient.__init__
LlamaAPIClient_init(e) ==
    LET super == CallPositional(BaseInitParams, LlamaSuperArgs)
    IN IF super # "none"
       THEN [raised |-> super, available |-> FALSE]
       ELSE [raised |-> "none", available |-> e.llamaServer = "up"]

\* ClaudeAPIClient.__init__: it raises when its cache directory cannot be made.
ClaudeAPIClient_init(e) ==
    IF e.claude = "throws"
    THEN [raised |-> "OSError", available |-> FALSE]
    ELSE [raised |-> "none", available |-> e.claude = "available"]

try_llama_client(e) ==
    LET c == LlamaAPIClient_init(e)
    IN IF c.raised = "none" /\ c.available THEN "llama" ELSE NoClient

try_claude_client(e) ==
    LET c == ClaudeAPIClient_init(e)
    IN IF c.raised = "none" /\ c.available THEN "claude" ELSE NoClient

get_fallback_client == "sample"

get_auto_client(e) ==
    IF try_llama_client(e) # NoClient THEN try_llama_client(e)
    ELSE IF try_claude_client(e) # NoClient THEN try_claude_client(e)
    ELSE get_fallback_client

\* The body of create_client.
create_client(e) ==
    CASE e.AI_PROVIDER = "claude" ->
            IF try_claude_client(e) # NoClient THEN try_claude_client(e)
            ELSE get_fallback_client
      [] e.AI_PROVIDER = "llama" ->
            IF try_llama_client(e) # NoClient THEN try_llama_client(e)
            ELSE get_fallback_client
      [] OTHER -> get_auto_client(e)

\* The body of get_all_available_clients.
get_all_available_clients(e) ==
    (IF try_llama_client(e) # NoClient THEN <<try_llama_client(e)>> ELSE <<>>)
    \o (IF try_claude_client(e) # NoClient THEN <<try_claude_client(e)>> ELSE <<>>)
    \o <<get_fallback_client>>

\* The body of get_available_providers: the same order, as names.
get_available_providers(e) == get_all_available_clients(e)

FactoryMethods == {"create_client", "get_all_available_clients", "get_available_providers"}

\* The keyword parameters of the factory methods: they take self only.
FactoryParams(method) == {}

\* A call of a factory method with the given keyword arguments.
factory_call(method, kwargs, e) ==
    IF CallKeywords(FactoryParams(method), kwargs) # "none"
    THEN [method |-> method, kwargs |-> kwargs,
          raised |-> CallKeywords(FactoryParams(method), kwargs), clients |-> <<>>]
    ELSE [method |-> method, kwargs |-> kwargs, raised |-> "none",
          clients |-> CASE method = "create_client" -> <<create_client(e)>>
                        [] method = "get_all_available_clients" -> get_all_available_clients(e)
                        [] OTHER -> get_available_providers(e)]

\* The keyword arguments of the calls: none, or use_cache as the generator
\* and the tests pass it.
CallForms == { {}, {"use_cache"} }

FactoryEnvs ==
    { [DefaultEnv EXCEPT !.AI_PROVIDER = p, !.claude = c, !.llamaServer = l] :
        p \in {"auto", "claude", "llama", "sample"},
        c \in {"available", "unavailable", "throws"},
        l \in {"up", "down"} }

InitFactory ==
    /\ SelIdle
    /\ NameIdle
    /\ CacheIdle
    /\ env \in FactoryEnvs
    /\ fcall = NoCall
    /\ pc = "idle"
    /\ args = NoArgs
    /\ outDir = NoOutDir
    /\ gen = NoGen
    /\ exitCode = -1

FactoryCall(method, kwargs) ==
    /\ fcall' = factory_call(method, kwargs, env)
    /\ UNCHANGED <<env, pc, args, outDir, gen, exitCode>>
    /\ UNCHANGED <<varsSel, varsName, varsCache>>

NextFactory ==
    \E m \in FactoryMethods, k \in CallForms : FactoryCall(m, k)

SpecFactory == InitFactory /\ [][NextFactory]_vars

Range(seq) == { seq[i] : i \in DOMAIN seq }

\* C10: a call of get_all_available_clients does not raise, the list it returns
\* is not empty and ends with the sample client, and a provider whose
\* construction raised is not in it.
C10_AllClients ==
    fcall.method = "get_all_available_clients" =>
        /\ fcall.raised = "none"
        /\ Len(fcall.clients) > 0
        /\ fcall.clients[Len(fcall.clients)] = "sample"
        /\ (env.claude = "throws" => "claude" \notin Range(fcall.clients))
        /\ (LlamaAPIClient_init(env).raised # "none" => "llama" \notin Range(fcall.clients))

-----------------------------------------------------------------------------
(* main and steps 0, 4, 5, 6 (specification SpecRun)                        *)

\* The values of CLEAR_CACHE_ON_START in the runs: not set, and three strings.
ClearCacheValues == {"unset", "TRUE", "false", "yes"}

\* value.lower() == 'true'
LowerIsTrue(value) == value \in {"true", "TRUE", "True"}

\* Every value but 'false' counts as true.
AnythingButFalse(value) == value # "false"

\* os.getenv('CLEAR_CACHE_ON_START', 'true').lower() == 'true'
ClearCacheEnabled(value) == IF value = "unset" THEN LowerIsTrue("true") ELSE LowerIsTrue(value)

\* clear_ai_content_cache: what it returns and the cache file after the call;
\* an exception of unlink is caught.
clear_ai_content_cache(file, force, e) ==
    IF ~force /\ ~ClearCacheEnabled(e.CLEAR_CACHE_ON_START)
    THEN [raised |-> "none", returned |-> FALSE, file |-> file]
    ELSE IF file.exists
    THEN IF e.unlink = "ok"
         THEN [raised |-> "none", returned |-> TRUE,
               file |-> [exists |-> FALSE, entries |-> EmptyCache]]
         ELSE [raised |-> "none", returned |-> FALSE, file |-> file]
    ELSE [raised |-> "none", returned |-> FALSE, file |-> file]

BasicDocuments == {"anschreiben.md", "lebenslauf.md", "anlagen.md"}

\* _generate_basic_documents: the three documents are written into output_dir.
generate_basic_documents(dir) ==
    [raised |-> "none", outDir |-> [dir EXCEPT !.files = @ \cup BasicDocuments],
     keys |-> BasicDocuments]

\* get_client_model_folder: "{provider}_{model}"; ClaudeAPIClient does not
\* derive from BaseAIClient and has no such method.
get_client_model_folder(c) ==
    IF c = "sample" THEN [raised |-> "none", name |-> "sample_content"]
    ELSE IF c \in MockClients THEN [raised |-> "none", name |-> c]
    ELSE [raised |-> "AttributeError", name |-> ""]

\* generated_files[f'{client_model_folder}_output_dir']
OutputDirKey(folder) ==
    CASE folder = "sample_content" -> "sample_content_output_dir"
      [] folder = "llama_3-2-latest" -> "llama_3-2-latest_output_dir"
      [] folder = "claude_sonnet-3-5" -> "claude_sonnet-3-5_output_dir"
      [] OTHER -> "output_dir"

\* The step at which the client raises in this run.
FailsAt(c, e) == IF c \in DOMAIN e.fails THEN e.fails[c] ELSE "none"

\* One pass of the provider loop: folder and generation.log; extraction and
\* content generation, which are outside the try block; rendering and saving of
\* the three documents inside it.
ProcessClient(acc, c, e) ==
    LET folder == get_client_model_folder(c)
        old == { f \in acc.outDir.folders : f.name = folder.name }
        started == UNION { f.files : f \in old } \cup {"generation.log"}
        with(files) ==
            [acc.outDir EXCEPT !.folders =
                (@ \ old) \cup {[name |-> folder.name, files |-> files,
                                  pdf |-> \E f \in old : f.pdf,
                                  pdfFiles |-> UNION { f.pdfFiles : f \in old }]}]
    IN IF acc.raised # "none" THEN acc
       ELSE IF folder.raised # "none" THEN [acc EXCEPT !.raised = folder.raised]
       ELSE IF FailsAt(c, e) \in {"extract", "generate"}
       THEN [raised |-> "Exception", outDir |-> with(started), keys |-> acc.keys]
       ELSE IF FailsAt(c, e) \in {"render", "save"}
       THEN [raised |-> "none", outDir |-> with(started), keys |-> acc.keys]
       ELSE [raised |-> "none", outDir |-> with(started \cup BasicDocuments),
             keys |-> acc.keys \cup {OutputDirKey(folder.name)}]

RECURSIVE ProcessClients(_, _, _)
ProcessClients(acc, clients, e) ==
    IF clients = <<>> THEN acc
    ELSE ProcessClients(ProcessClient(acc, Head(clients), e), Tail(clients), e)

\* generate_application_documents: the fallback without the AI modules, else the
\* factory call with use_cache and the loop over the clients it returns.
generate_application_documents(dir, e, use_cache) ==
    IF ~e.imports THEN generate_basic_documents(dir)
    ELSE LET method == IF e.GENERATE_ALL_PROVIDERS THEN "get_all_available_clients"
                       ELSE "create_client"
             call == IF e.factory = "patched"
                     \* the mock accepts every call and returns its return_value
                     THEN [method |-> method, kwargs |-> {"use_cache"},
                           raised |-> "none", clients |-> e.mockClients]
                     ELSE factory_call(method, {"use_cache"}, e)
         IN IF call.raised # "none"
            THEN [raised |-> call.raised, outDir |-> dir, keys |-> {}]
            ELSE ProcessClients([raised |-> "none", outDir |-> dir, keys |-> {}],
                                call.clients, e)

\* Folder names made of provider and model contain '_'; pdf does not.
IsModelFolder(name) == name # "pdf"

\* Path.parent
Parent(path) == SubSeq(path, 1, Len(path) - 1)

\* create_pdf_directory: pdf/ in every model folder; the path it returns, from
\* Ausgabe/ on. Without model folder nothing is created.
create_pdf_directory(root, dir, e) ==
    LET targets == { f \in dir.folders : IsModelFolder(f.name) }
        first == CHOOSE f \in targets : TRUE
    IN IF targets = {}
       THEN [raised |-> "none", outDir |-> dir, pdf_dir |-> <<root, "pdf">>]
       ELSE IF e.pdfMkdir # "ok" /\ \E f \in targets : ~f.pdf
       THEN [raised |-> "OSError", outDir |-> dir, pdf_dir |-> <<>>]
       ELSE [raised |-> "none",
             outDir |-> [dir EXCEPT !.folders =
                           (@ \ targets) \cup { [f EXCEPT !.pdf = TRUE] : f \in targets }],
             pdf_dir |-> <<root, first.name, "pdf">>]

\* md_path.name.replace('.md', '.pdf') and the HTML preview next to it.
Converted(md) ==
    CASE md = "anschreiben.md" -> {"anschreiben.pdf", "anschreiben.html"}
      [] md = "lebenslauf.md" -> {"lebenslauf.pdf", "lebenslauf.html"}
      [] md = "anlagen.md" -> {"anlagen.pdf", "anlagen.html"}
      [] OTHER -> {}

\* item.glob("*.md")
MdFiles(files) == files \cap BasicDocuments

\* The files the conversion of a directory leaves in its pdf/: none when
\* write_pdf raises for every document, which is caught per document.
ConvertAll(files, e) ==
    IF e.weasyprint = "ok" THEN UNION { Converted(md) : md \in MdFiles(files) } ELSE {}

\* convert_documents_to_pdf: the directories below pdf_dir.parent.parent whose
\* name contains '_' and which hold markdown files get a pdf/ with the PDFs.
convert_documents_to_pdf(root, dir, pdf_dir, e) ==
    LET main_output_dir == Parent(Parent(pdf_dir))
        sources == { f \in dir.folders : IsModelFolder(f.name) /\ MdFiles(f.files) # {} }
    IN IF e.weasyprint \in {"no_import", "missing"}
       THEN [raised |-> "none", outDir |-> dir, pdfs |-> {}]
       ELSE IF main_output_dir = <<root>>
       THEN IF e.pdfMkdir # "ok" /\ \E f \in sources : ~f.pdf
            THEN [raised |-> "OSError", outDir |-> dir, pdfs |-> {}]
            ELSE [raised |-> "none",
                  outDir |-> [dir EXCEPT !.folders =
                      (@ \ sources) \cup
                      { [f EXCEPT !.pdf = TRUE, !.pdfFiles = @ \cup ConvertAll(f.files, e)] :
                          f \in sources }],
                  pdfs |-> UNION { ConvertAll(f.files, e) : f \in sources }]
       ELSE \* main_output_dir is Ausgabe/: the output directory itself is a source
            IF "_" \notin Range(root) \/ MdFiles(dir.files) = {}
            THEN [raised |-> "none", outDir |-> dir, pdfs |-> {}]
            ELSE IF e.pdfMkdir # "ok" /\ ~dir.pdf
            THEN [raised |-> "OSError", outDir |-> dir, pdfs |-> {}]
            ELSE [raised |-> "none",
                  outDir |-> [dir EXCEPT !.pdf = TRUE,
                                         !.pdfFiles = @ \cup ConvertAll(dir.files, e)],
                  pdfs |-> ConvertAll(dir.files, e)]

\* The names directly in the output directory.
Listing(dir) ==
    dir.files \cup { f.name : f \in dir.folders } \cup (IF dir.pdf THEN {"pdf"} ELSE {})

\* Ausgabe/ with the entries of the output directory of this run.
WithListing(a, root, dir) ==
    [a EXCEPT !.sub = { IF d.name = root THEN [d EXCEPT !.entries = Listing(dir)] ELSE d :
                        d \in @ }]

RunArgs ==
    { NoArgs, [NoArgs EXCEPT !.clear_cache = TRUE], [NoArgs EXCEPT !.no_cache = TRUE],
      [NoArgs EXCEPT !.keep_cache = TRUE],
      [NoArgs EXCEPT !.keep_cache = TRUE, !.clear_cache = TRUE] }

RunEnvs ==
    { [AI_PROVIDER |-> p, claude |-> c, llamaServer |-> "down",
       GENERATE_ALL_PROVIDERS |-> g, imports |-> i, weasyprint |-> w,
       pdfMkdir |-> m, CLEAR_CACHE_ON_START |-> s, unlink |-> u,
       factory |-> "repository", mockClients |-> <<>>, fails |-> NoFailure] :
        p \in {"auto", "sample"}, c \in {"available", "unavailable"},
        g \in BOOLEAN, i \in BOOLEAN,
        w \in {"no_import", "missing", "ok", "failing"},
        m \in {"ok", "OSError"}, s \in ClearCacheValues, u \in {"ok", "OSError"} }

RunProfilDirs ==
    { [exists |-> FALSE, listing |-> <<>>],
      [exists |-> TRUE, listing |-> <<Entry(Compose(D0604, IdSetz, PdfExt), TRUE)>>] }

RunStellenDirs ==
    { [exists |-> TRUE, listing |-> <<>>],
      [exists |-> TRUE, listing |-> <<Entry(Compose(D0624, IdJob, TxtExt), TRUE)>>] }

InitRun ==
    /\ profilDir \in RunProfilDirs
    /\ stellenDir \in RunStellenDirs
    /\ selProfile = NotCalled
    /\ selJob = NotCalled
    /\ NameIdle
    /\ cacheFile \in { [exists |-> FALSE, entries |-> EmptyCache],
                       [exists |-> TRUE, entries |-> EmptyCache] }
    /\ client = [provider |-> "none", available |-> FALSE, use_cache |-> FALSE,
                 mem |-> EmptyCache]
    /\ stored = NothingStored
    /\ last = NoLast
    /\ env \in RunEnvs
    /\ fcall = NoCall
    /\ pc = "step0"
    /\ args \in RunArgs
    /\ outDir = NoOutDir
    /\ gen = NoGen
    /\ exitCode = -1

\* return 1, also from the except clause around all steps
Exit(code) ==
    /\ pc' = "done"
    /\ exitCode' = code

Step0 ==
    LET force == args.clear_cache
        r == clear_ai_content_cache(cacheFile, force, env)
    IN /\ pc = "step0"
       /\ IF args.keep_cache THEN UNCHANGED <<cacheFile, last>>
          ELSE /\ cacheFile' = r.file
               /\ last' = [NoLast EXCEPT !.op = "clear_ai_content_cache",
                                         !.request = [force |-> force, file |-> cacheFile],
                                         !.raised = r.raised, !.response = r.returned]
       /\ pc' = "step1"
       /\ UNCHANGED <<env, fcall, args, outDir, gen, exitCode>>
       /\ UNCHANGED <<client, stored>>
       /\ UNCHANGED <<varsSel, varsName>>

Step1 ==
    /\ pc = "step1"
    /\ selProfile' = get_newest_file_by_date_pattern(profilDir, PdfExt)
    /\ IF selProfile' = None THEN Exit(1)
       ELSE pc' = "step2" /\ UNCHANGED exitCode
    /\ UNCHANGED <<env, fcall, args, outDir, gen>>
    /\ UNCHANGED <<profilDir, stellenDir, selJob>>
    /\ UNCHANGED <<varsName, varsCache>>

Step2 ==
    /\ pc = "step2"
    /\ selJob' = get_newest_file_by_date_pattern(stellenDir, TxtExt)
    /\ IF selJob' = None THEN Exit(1)
       ELSE pc' = "step3" /\ UNCHANGED exitCode
    /\ UNCHANGED <<env, fcall, args, outDir, gen>>
    /\ UNCHANGED <<profilDir, stellenDir, selProfile>>
    /\ UNCHANGED <<varsName, varsCache>>

Step3 ==
    LET ids == extract_file_identifiers(selProfile.name, selJob.name)
        name == output_dir_name(ids.value)
        made == MkdirOutputPath(ausgabe.sub, name)
    IN /\ pc = "step3"
       /\ argProfile' = selProfile.name
       /\ argJob' = selJob.name
       /\ ausgabeBefore' = ausgabe
       /\ IF ids.raised # "none"
          THEN /\ ret' = Raised("create", ids.raised)
               /\ UNCHANGED ausgabe
               /\ Exit(1)
          ELSE /\ ausgabe' = [exists |-> TRUE, sub |-> made.sub]
               /\ ret' = Returned("create", name)
               /\ pc' = "step4"
               /\ UNCHANGED exitCode
       /\ UNCHANGED <<env, fcall, args, outDir, gen>>
       /\ UNCHANGED <<varsSel, varsCache>>

Step4 ==
    LET r == generate_application_documents(outDir, env, ~args.no_cache)
    IN /\ pc = "step4"
       /\ gen' = [called |-> TRUE, raised |-> r.raised, keys |-> r.keys, pdf_dir |-> <<>>]
       /\ outDir' = r.outDir
       /\ ausgabe' = WithListing(ausgabe, ret.value, r.outDir)
       /\ IF r.raised # "none" \/ r.keys = {} THEN Exit(1)
          ELSE pc' = "step5" /\ UNCHANGED exitCode
       /\ UNCHANGED <<env, fcall, args>>
       /\ UNCHANGED <<argProfile, argJob, ret, ausgabeBefore>>
       /\ UNCHANGED <<varsSel, varsCache>>

\* Steps 5 and 6 up to the return of main.
Step5 ==
    LET r == create_pdf_directory(ret.value, outDir, env)
    IN /\ pc = "step5"
       /\ outDir' = r.outDir
       /\ ausgabe' = WithListing(ausgabe, ret.value, r.outDir)
       /\ gen' = [gen EXCEPT !.pdf_dir = r.pdf_dir]
       /\ IF r.raised # "none" THEN Exit(1)
          ELSE pc' = "step6" /\ UNCHANGED exitCode
       /\ UNCHANGED <<env, fcall, args>>
       /\ UNCHANGED <<argProfile, argJob, ret, ausgabeBefore>>
       /\ UNCHANGED <<varsSel, varsCache>>

Step6 ==
    LET r == convert_documents_to_pdf(ret.value, outDir, gen.pdf_dir, env)
    IN /\ pc = "step6"
       /\ outDir' = r.outDir
       /\ ausgabe' = WithListing(ausgabe, ret.value, r.outDir)
       /\ IF r.raised # "none" THEN Exit(1) ELSE Exit(0)
       /\ UNCHANGED <<env, fcall, args, gen>>
       /\ UNCHANGED <<argProfile, argJob, ret, ausgabeBefore>>
       /\ UNCHANGED <<varsSel, varsCache>>

NextRun ==
    \/ Step0
    \/ Step1
    \/ Step2
    \/ Step3
    \/ Step4
    \/ Step5
    \/ Step6

SpecRun == InitRun /\ [][NextRun]_vars

\* C3: with GENERATE_ALL_PROVIDERS set and the AI modules importable,
\* generate_application_documents does not
\* raise to its caller, and the map it returns has the key
\* sample_content_output_dir.
C3_NeverRaises ==
    (gen.called /\ env.imports /\ env.GENERATE_ALL_PROVIDERS) =>
        /\ gen.raised = "none"
        /\ "sample_content_output_dir" \in gen.keys

\* C4: at every point of steps 3 to 6 the output directory holds no regular
\* file of its own.
C4_DirectoryOnly ==
    outDir.files = {}

\* C5: with GENERATE_ALL_PROVIDERS=false, AI_PROVIDER=sample and the AI modules
\* importable, step 4 leaves
\* exactly one folder in the output directory, sample_content, with
\* anschreiben.md, lebenslauf.md and anlagen.md.
C5_SingleSample ==
    (gen.called /\ env.imports /\ ~env.GENERATE_ALL_PROVIDERS
        /\ env.AI_PROVIDER = "sample") =>
        /\ { f.name : f \in outDir.folders } = {"sample_content"}
        /\ \A f \in outDir.folders : BasicDocuments \subseteq f.files

\* C9: main returns 0 exactly when a profile and a job description were found
\* and step 4 returned documents, whatever happens in steps 5 and 6; otherwise
\* it returns 1.
C9_ExitCodes ==
    pc = "done" =>
        /\ exitCode \in {0, 1}
        /\ exitCode = 0 <=>
              /\ selProfile.kind = "file"
              /\ selJob.kind = "file"
              /\ gen.keys # {}

-----------------------------------------------------------------------------
(* Claims on the factory's selection                                        *)

\* is_available() of a client the factory holds.
is_available(c, e) ==
    CASE c = "sample" -> TRUE
      [] c = "claude" -> e.claude = "available"
      [] c = "llama" -> e.llamaServer = "up"
      [] OTHER -> FALSE

\* C11: with AI_PROVIDER=auto, create_client returns the Llama client when
\* Ollama answers with the model, else the Claude client when that is
\* available, else the sample client, and the client it returns is available.
C11_AutoSelection ==
    (fcall.method = "create_client" /\ fcall.raised = "none"
        /\ env.AI_PROVIDER = "auto") =>
        /\ fcall.clients =
              << IF env.llamaServer = "up" THEN "llama"
                 ELSE IF env.claude = "available" THEN "claude"
                 ELSE "sample" >>
        /\ is_available(fcall.clients[1], env)

-----------------------------------------------------------------------------
(* Claims on generate_content                                               *)

\* C12: generate_content returns a response for every request, whatever the
\* provider answers and whatever the cache holds; it does not raise.
C12_NeverPropagates ==
    last.op = "generate" =>
        /\ last.raised = "none"
        /\ last.response # NoResponse
        /\ last.response.generated_text # ""

-----------------------------------------------------------------------------
(* The provider loop with the factory replaced, as in the tests             *)

\* The lists a replaced get_all_available_clients returns: one to three
\* different clients in any order.
ClientLists ==
    { l \in UNION { [1..n -> MockClients] : n \in 1..3 } :
        \A i, j \in DOMAIN l : i # j => l[i] # l[j] }

LoopEnvs ==
    { [DefaultEnv EXCEPT !.factory = "patched", !.mockClients = l, !.fails = f,
                         !.weasyprint = w] :
        l \in ClientLists, f \in [MockClients -> {"none"} \cup LoopSteps],
        w \in {"ok", "missing"} }

\* main after step 3 for the files of the example.
InitLoop ==
    /\ profilDir \in { d \in RunProfilDirs : d.listing # <<>> }
    /\ stellenDir \in { d \in RunStellenDirs : d.listing # <<>> }
    /\ selProfile = File(Compose(D0604, IdSetz, PdfExt))
    /\ selJob = File(Compose(D0624, IdJob, TxtExt))
    /\ argProfile = Compose(D0604, IdSetz, PdfExt)
    /\ argJob = Compose(D0624, IdJob, TxtExt)
    /\ ret = Returned("create", ExampleDirName)
    /\ ausgabeBefore = [exists |-> TRUE, sub |-> {}]
    /\ ausgabe = [exists |-> TRUE, sub |-> {[name |-> ExampleDirName, entries |-> {}]}]
    /\ CacheIdle
    /\ env \in LoopEnvs
    /\ fcall = NoCall
    /\ pc = "step4"
    /\ args = NoArgs
    /\ outDir = NoOutDir
    /\ gen = NoGen
    /\ exitCode = -1

NextLoop ==
    \/ Step4
    \/ Step5
    \/ Step6

SpecLoop == InitLoop /\ [][NextLoop]_vars

\* The clients of the list that raise at no step of the loop.
Succeeding(e) == { c \in Range(e.mockClients) : FailsAt(c, e) = "none" }

\* C13: in the provider loop a failure of one provider at extraction, content
\* generation, rendering or saving is caught: generate_application_documents
\* does not raise, every provider of the list was processed, and the map it
\* returns has the output directory of exactly the providers that succeeded.
C13_FailureIsolation ==
    (gen.called /\ env.factory = "patched") =>
        /\ gen.raised = "none"
        /\ { f.name : f \in outDir.folders } = Range(env.mockClients)
        /\ gen.keys = { OutputDirKey(c) : c \in Succeeding(env) }

-----------------------------------------------------------------------------
(* Claims on the PDF directories                                            *)

\* Step 5 has returned in this run.
AfterStep5 == gen.pdf_dir # <<>>

\* C14: once step 5 has returned, every provider folder of the output
\* directory holds a pdf/ directory, and the output directory itself never
\* holds one: not after step 5, not after step 6, not when generation failed.
C14_PdfInProviderFolders ==
    /\ ~outDir.pdf
    /\ AfterStep5 => \A f \in outDir.folders : f.pdf

-----------------------------------------------------------------------------
(* The structured header of a job description                               *)

\* A text is the sequence of its whitespace-separated tokens; a line is its
\* prefix and the tokens after it; a job description is a sequence of lines.
Line(prefix, tokens) == [prefix |-> prefix, tokens |-> tokens]

\* part.isdigit() and len(part) == 5, on the tokens of the examples
FiveDigits == {"53340", "61348"}
IsPLZ(part) == part \in FiveDigits

\* part.lower() in ['gmbh', 'ag', 'kg', 'co.', 'co', 'ohg', 'mbh'], on the
\* tokens of the examples
Lower(part) ==
    CASE part = "GmbH" -> "gmbh"
      [] part = "AG" -> "ag"
      [] part = "KG" -> "kg"
      [] part = "Co." -> "co."
      [] OTHER -> part
CompanySuffixes == {"gmbh", "ag", "kg", "co.", "co", "ohg", "mbh"}
IsCompanySuffix(part) == Lower(part) \in CompanySuffixes

\* The defaults of _parse_adressat_line.
DefaultHeader ==
    [company_name |-> <<"Unternehmen">>, position_title |-> <<"Position">>,
     adressat_firma |-> <<"Unternehmen">>, adressat_strasse |-> <<"Straße">>,
     adressat_plz_ort |-> <<"PLZ", "Ort">>, adressat_land |-> <<"Deutschland">>,
     stelle |-> <<"Position">>, stellen_id |-> <<>>]

\* The first index (counted from 0) of a token that satisfies the test among
\* the first n tokens, -1 if there is none.
FirstIndex(parts, n, Test(_)) ==
    LET hits == { i \in 0..(n - 1) : Test(parts[i + 1]) }
    IN IF hits = {} THEN -1
       ELSE CHOOSE i \in hits : \A j \in hits : i <= j

\* The Adressat branch of the loop over the lines: the fields it updates.
parse_adressat(result, parts) ==
    LET n == Len(parts)
        plz_index == FirstIndex(parts, n, IsPLZ)
        suffix == FirstIndex(parts, plz_index - 1, IsCompanySuffix)
        company_end == IF suffix = -1 THEN 1 ELSE suffix + 1
        company_name == SubSeq(parts, 1, company_end)
        street == SubSeq(parts, company_end + 1, plz_index)
        city == IF n > plz_index + 2 THEN SubSeq(parts, plz_index + 2, n - 1)
                ELSE <<parts[plz_index + 2]>>
        country == IF n > plz_index + 2 THEN <<parts[n]>> ELSE <<"Deutschland">>
    IN IF n < 4 \/ plz_index <= 0 THEN [raised |-> "none", result |-> result]
       ELSE IF plz_index + 2 > n
       \* parts[plz_index+1] when the postal code is the last token
       THEN [raised |-> "IndexError", result |-> result]
       ELSE [raised |-> "none",
             result |-> [result EXCEPT !.company_name = company_name,
                                       !.adressat_firma = company_name,
                                       !.adressat_strasse = street,
                                       !.adressat_plz_ort = <<parts[plz_index + 1]>> \o city,
                                       !.adressat_land = country]]

\* One pass of the loop over the lines.
parse_line(acc, line) ==
    IF acc.raised # "none" THEN acc
    ELSE IF line.prefix = "Adressat:" THEN parse_adressat(acc.result, line.tokens)
    ELSE IF line.prefix = "Stelle:"
    THEN [acc EXCEPT !.result.position_title = line.tokens, !.result.stelle = line.tokens]
    ELSE IF line.prefix = "Stellen-ID:"
    THEN [acc EXCEPT !.result.stellen_id = line.tokens]
    ELSE acc

RECURSIVE parse_lines(_, _)
parse_lines(acc, lines) ==
    IF lines = <<>> THEN acc
    ELSE parse_lines(parse_line(acc, Head(lines)), Tail(lines))

\* ClaudeAPIClient._parse_adressat_line
parse_adressat_line(job_description) ==
    parse_lines([raised |-> "none", result |-> DefaultHeader], job_description)

\* What client.messages.create answers to an extraction prompt: a text with
\* both fields, a text without them, or an exception.
ExtractionOutcomes == {"fields", "other text", "error"}

ProviderCompany == <<"Beispiel", "AG">>
ProviderPosition == <<"DevOps", "Engineer">>
Placeholders == [company_name |-> <<"Unternehmen">>, position_title |-> <<"Position">>]

\* ClaudeAPIClient._extract_position_with_claude, called on an available client
extract_position_with_claude(outcome) ==
    IF outcome = "error" THEN <<"Position">>
    ELSE IF outcome = "fields" THEN ProviderPosition
    ELSE <<"other", "text">>

\* ClaudeAPIClient.extract_company_and_position: the result, the exception and
\* whether client.messages.create was called.
extract_company_and_position(c, job_description, outcome) ==
    LET adressat_info == parse_adressat_line(job_description)
    IN IF adressat_info.raised # "none"
       THEN [raised |-> adressat_info.raised, result |-> <<>>, providerCalled |-> FALSE]
       ELSE IF adressat_info.result.company_name # <<"Unternehmen">>
       THEN IF c.available
            THEN [raised |-> "none",
                  result |-> [adressat_info.result EXCEPT
                                !.position_title = extract_position_with_claude(outcome)],
                  providerCalled |-> TRUE]
            ELSE [raised |-> "none", result |-> adressat_info.result,
                  providerCalled |-> FALSE]
       ELSE IF ~c.available
       THEN [raised |-> "none", result |-> Placeholders, providerCalled |-> FALSE]
       ELSE [raised |-> "none",
             result |-> IF outcome = "fields"
                        THEN [company_name |-> ProviderCompany,
                              position_title |-> ProviderPosition]
                        ELSE Placeholders,
             providerCalled |-> TRUE]

\* Addresses of the form <company> <street> <PLZ> <city> <country>.
Companies ==
    { <<"BWI", "GmbH">>, <<"Siemens">>, <<"Deutsche", "Bahn", "AG">>,
      <<"Siemens", "Mobility">>, <<"Müller", "GmbH", "&", "Co.", "KG">> }
Streets == { <<"Auf", "dem", "Steinbüchel", "22">>, <<"Hauptstraße", "5">>, <<"Markt">> }
Cities == { <<"Meckenheim">>, <<"Bad", "Homburg">> }
Countries == {"Deutschland", "Österreich"}
Addresses ==
    [company : Companies, street : Streets, plz : FiveDigits, city : Cities,
     country : Countries]

AdressatLine(a) ==
    Line("Adressat:", a.company \o a.street \o <<a.plz>> \o a.city \o <<a.country>>)

StelleLine == Line("Stelle:", <<"Senior", "DevOps", "Engineer", "(m/w/d)">>)
FreeText == Line("", <<"Wir", "suchen", "Verstärkung">>)

\* The address of the example.
ExampleAddress ==
    [company |-> <<"BWI", "GmbH">>, street |-> <<"Auf", "dem", "Steinbüchel", "22">>,
     plz |-> "53340", city |-> <<"Meckenheim">>, country |-> "Deutschland"]

\* Job descriptions: with an address line, alone or followed by a Stelle line;
\* free text only; a header that stops after the postal code or has too few
\* tokens.
JobDescriptions ==
    { <<AdressatLine(a)>> : a \in Addresses }
    \cup { <<AdressatLine(a), StelleLine>> : a \in {ExampleAddress} }
    \cup { <<FreeText>>, <<StelleLine, FreeText>>,
           <<Line("Adressat:", <<"BWI", "GmbH", "Hauptstraße", "53340">>)>>,
           <<Line("Adressat:", <<"BWI", "GmbH", "Meckenheim">>)>>,
           <<Line("Adressat:", <<"BWI", "GmbH", "Hauptstraße", "5", "53340", "Meckenheim">>)>> }

\* A Claude client and a job description not yet looked at.
InitHeader ==
    /\ SelIdle
    /\ NameIdle
    /\ cacheFile = [exists |-> FALSE, entries |-> EmptyCache]
    /\ \E a \in BOOLEAN :
         client = [provider |-> "claude", available |-> a, use_cache |-> FALSE,
                   mem |-> EmptyCache]
    /\ stored = NothingStored
    /\ \E jd \in JobDescriptions : last = [NoLast EXCEPT !.request = jd]
    /\ RunIdle

ParseAdressatLine ==
    LET r == parse_adressat_line(last.request)
    IN /\ last.op = "none"
       /\ last' = [last EXCEPT !.op = "_parse_adressat_line", !.raised = r.raised,
                               !.response = r.result]
       /\ UNCHANGED <<cacheFile, client, stored>>
       /\ UNCHANGED <<varsSel, varsName, varsRun>>

ExtractCompanyAndPosition(outcome) ==
    LET r == extract_company_and_position(client, last.request, outcome)
    IN /\ last.op = "none"
       /\ last' = [last EXCEPT !.op = "extract_company_and_position",
                               !.raised = r.raised, !.response = r.result,
                               !.providerCalled = r.providerCalled]
       /\ UNCHANGED <<cacheFile, client, stored>>
       /\ UNCHANGED <<varsSel, varsName, varsRun>>

NextHeader ==
    \/ ParseAdressatLine
    \/ \E outcome \in ExtractionOutcomes : ExtractCompanyAndPosition(outcome)

SpecHeader == InitHeader /\ [][NextHeader]_vars

\* C15: extract_company_and_position calls the provider only if the header
\* yields the placeholder company; with a company in the header no provider
\* call is made, whether or not the provider is available.
C15_TwoTierExtraction ==
    (last.op = "extract_company_and_position" /\ last.raised = "none"
        /\ last.providerCalled) =>
        parse_adressat_line(last.request).result.company_name = <<"Unternehmen">>

\* C16: for every line of the form 'Adressat: <company> <street> <PLZ> <city>
\* <country>' _parse_adressat_line yields the company tokens, the street
\* tokens, the PLZ followed by the city, and the last token as the country.
C16_AdressatParsed ==
    \A a \in Addresses :
        (last.op = "_parse_adressat_line" /\ last.request = <<AdressatLine(a)>>) =>
            /\ last.raised = "none"
            /\ last.response.adressat_firma = a.company
            /\ last.response.company_name = a.company
            /\ last.response.adressat_strasse = a.street
            /\ last.response.adressat_plz_ort = <<a.plz>> \o a.city
            /\ last.response.adressat_land = <<a.country>>

-----------------------------------------------------------------------------
(* Folder names of the clients                                              *)

\* A name is the sequence of its characters.
LlamaChars == <<"l", "l", "a", "m", "a">>
SampleChars == <<"s", "a", "m", "p", "l", "e">>
ContentChars == <<"c", "o", "n", "t", "e", "n", "t">>
UnknownChars == <<"u", "n", "k", "n", "o", "w", "n">>

\* str.replace(old, new) for a single character old
RECURSIVE Replace(_, _, _)
Replace(s, old, new) ==
    IF s = <<>> THEN <<>>
    ELSE <<IF Head(s) = old THEN new ELSE Head(s)>> \o Replace(Tail(s), old, new)

\* str.strip('-')
RECURSIVE StripDashes(_)
StripDashes(s) ==
    IF s = <<>> THEN <<>>
    ELSE IF Head(s) = "-" THEN StripDashes(Tail(s))
    ELSE IF s[Len(s)] = "-" THEN StripDashes(SubSeq(s, 1, Len(s) - 1))
    ELSE s

StartsWith(s, prefix) ==
    Len(s) >= Len(prefix) /\ SubSeq(s, 1, Len(prefix)) = prefix

\* model.replace('llama', ''): every occurrence, from the left
RECURSIVE RemoveLlama(_)
RemoveLlama(s) ==
    IF s = <<>> THEN <<>>
    ELSE IF StartsWith(s, LlamaChars)
    THEN RemoveLlama(SubSeq(s, Len(LlamaChars) + 1, Len(s)))
    ELSE <<Head(s)>> \o RemoveLlama(Tail(s))

\* LlamaAPIClient.get_model_name
LlamaAPIClient_get_model_name(model_name) ==
    IF model_name = <<>> THEN UnknownChars
    ELSE LET model == IF StartsWith(model_name, LlamaChars) THEN RemoveLlama(model_name)
                      ELSE model_name
         IN StripDashes(Replace(Replace(model, ".", "-"), ":", "-"))

\* get_provider_name: the class name without 'APIClient' and 'Client', in
\* lower case; SampleAIClient overrides it.
get_provider_name(class) ==
    IF class = "LlamaAPIClient" THEN LlamaChars ELSE SampleChars

\* get_model_name of the two subclasses of BaseAIClient
get_model_name(cfg) ==
    IF cfg.class = "LlamaAPIClient" THEN LlamaAPIClient_get_model_name(cfg.model_name)
    ELSE ContentChars

\* BaseAIClient.get_client_model_folder: f"{provider}_{model}" and the five
\* replacements.
folder_name(provider, model) ==
    LET name == provider \o <<"_">> \o model
        a == Replace(Replace(Replace(name, ":", "-"), "/", "-"), "\\", "-")
    IN Replace(Replace(a, " ", "_"), ".", "-")

client_model_folder(cfg) == folder_name(get_provider_name(cfg.class), get_model_name(cfg))

\* Characters of model names and the longest model name after 'llama'.
ModelChars == {"3", ".", ":", "-", "/", " "}
MaxModelLen == 2

ModelNames ==
    LET tails == UNION { [1..n -> ModelChars] : n \in 0..MaxModelLen }
    IN tails \cup { LlamaChars \o t : t \in tails }

\* The configurations of a client: its class and, for the local model, the
\* value of LLAMA_MODEL.
ClientConfigs ==
    { [class |-> "LlamaAPIClient", model_name |-> m] : m \in ModelNames }
    \cup { [class |-> "SampleAIClient", model_name |-> <<>>] }

\* Two clients whose folder names have not been asked for.
InitFolder ==
    /\ SelIdle
    /\ NameIdle
    /\ cacheFile = [exists |-> FALSE, entries |-> EmptyCache]
    /\ client = [provider |-> "none", available |-> FALSE, use_cache |-> FALSE,
                 mem |-> EmptyCache]
    /\ stored = NothingStored
    /\ \E a \in ClientConfigs, b \in ClientConfigs :
         last = [NoLast EXCEPT !.request = <<a, b>>]
    /\ RunIdle

GetClientModelFolder ==
    /\ last.op = "none"
    /\ last' = [last EXCEPT !.op = "get_client_model_folder",
                            !.response = <<client_model_folder(last.request[1]),
                                           client_model_folder(last.request[2])>>]
    /\ UNCHANGED <<cacheFile, client, stored>>
    /\ UNCHANGED <<varsSel, varsName, varsRun>>

NextFolder == GetClientModelFolder

SpecFolder == InitFolder /\ [][NextFolder]_vars

\* C17: two different configurations of provider and model get different
\* folder names.
C17_FolderInjective ==
    (last.op = "get_client_model_folder" /\ last.request[1] # last.request[2]) =>
        last.response[1] # last.response[2]

\* The folder names of the clients that derive from BaseAIClient are not empty
\* and hold none of the characters ':', '/', '\', space and '.'.
FolderNameSafe ==
    last.op = "get_client_model_folder" =>
        \A i \in 1..2 :
            /\ last.response[i] # <<>>
            /\ \A k \in 1..Len(last.response[i]) :
                 last.response[i][k] \notin {":", "/", "\\", " ", "."}


\* C18: every client the factory returns provides get_client_model_folder, and
\* the call yields a folder name that is not empty.
C18_FolderProvided ==
    (fcall.method \in {"create_client", "get_all_available_clients"}
        /\ fcall.raised = "none") =>
        \A c \in Range(fcall.clients) :
            /\ get_client_model_folder(c).raised = "none"
            /\ get_client_model_folder(c).name # ""

-----------------------------------------------------------------------------
(* The sample client                                                        *)

\* The content types of the cover letter.
CoverLetterTypes ==
    {"einstiegstext", "fachliche_passung", "motivationstext", "mehrwert", "abschlusstext"}

\* The texts of generate_sample_ai_content, each by its first words.
SampleTexts ==
    [k \in CoverLetterTypes |->
        CASE k = "einstiegstext" -> "mit großem Interesse habe ich"
          [] k = "fachliche_passung" -> "Mit über 7 Jahren Erfahrung"
          [] k = "motivationstext" -> "Die Kombination aus technischer Innovation"
          [] k = "mehrwert" -> "In meinen bisherigen Projekten"
          [] k = "abschlusstext" -> "Über die Möglichkeit"]

\* The texts without the entry for mehrwert.
SampleTextsWithoutMehrwert ==
    [k \in CoverLetterTypes \ {"mehrwert"} |-> SampleTexts[k]]

\* generate_sample_ai_content()
generate_sample_ai_content == SampleTexts

\* f"Sample {content_key} content"
DefaultSampleText(key) ==
    CASE key = "einstiegstext" -> "Sample einstiegstext content"
      [] key = "fachliche_passung" -> "Sample fachliche_passung content"
      [] key = "motivationstext" -> "Sample motivationstext content"
      [] key = "mehrwert" -> "Sample mehrwert content"
      [] key = "abschlusstext" -> "Sample abschlusstext content"
      [] key = "berufserfahrung_enhanced" -> "Sample berufserfahrung_enhanced content"
      [] key = "ausbildung_enhanced" -> "Sample ausbildung_enhanced content"
      [] key = "fachkenntnisse_enhanced" -> "Sample fachkenntnisse_enhanced content"

\* SampleAIClient.generate_content
SampleAIClient_generate_content(request) ==
    LET sample_content == generate_sample_ai_content
        content_key == request.content_type.value
    IN [content_type |-> request.content_type,
        generated_text |-> IF content_key \in DOMAIN sample_content
                           THEN sample_content[content_key]
                           ELSE DefaultSampleText(content_key),
        confidence |-> "0.5", tokens_used |-> 0, processing_time |-> "dt",
        metadata |-> "source: sample_content, provider: sample"]

\* SampleAIClient.generate_all_cover_letter_content
SampleAIClient_generate_all_cover_letter_content(job, profile, company, position) ==
    generate_sample_ai_content

EmptyText == [prefix |-> "", rest |-> ""]

\* The requests made of the sample client: every member of ContentType, with
\* and without texts.
SampleRequests ==
    [content_type : { EnumOf(v) : v \in AllContentTypes },
     job_description : {JobText, JobTextSamePrefix, EmptyText},
     profile_content : {ProfileText, EmptyText},
     company_name : {"BWI GmbH", "Unternehmen"},
     position_title : {"Senior DevOps Engineer", "Position"}]

\* SampleAIClient.__init__
InitSample ==
    /\ SelIdle
    /\ NameIdle
    /\ cacheFile = [exists |-> FALSE, entries |-> EmptyCache]
    /\ client = [provider |-> "sample", available |-> TRUE, use_cache |-> FALSE,
                 mem |-> EmptyCache]
    /\ stored = NothingStored
    /\ last = NoLast
    /\ RunIdle

SampleIsAvailable ==
    /\ client.provider = "sample"
    /\ last' = [NoLast EXCEPT !.op = "is_available",
                              !.response = is_available("sample", env)]
    /\ UNCHANGED <<cacheFile, client, stored>>
    /\ UNCHANGED <<varsSel, varsName, varsRun>>

SampleGenerateContent(request) ==
    /\ client.provider = "sample"
    /\ last' = [NoLast EXCEPT !.op = "generate_content", !.request = request,
                              !.response = SampleAIClient_generate_content(request)]
    /\ UNCHANGED <<cacheFile, client, stored>>
    /\ UNCHANGED <<varsSel, varsName, varsRun>>

SampleGenerateAll(job_description, profile_content, company_name, position_title) ==
    /\ client.provider = "sample"
    /\ last' = [NoLast EXCEPT
                  !.op = "generate_all_cover_letter_content",
                  !.request = [job_description |-> job_description,
                               profile_content |-> profile_content,
                               company_name |-> company_name,
                               position_title |-> position_title],
                  !.response = SampleAIClient_generate_all_cover_letter_content(
                                  job_description, profile_content,
                                  company_name, position_title)]
    /\ UNCHANGED <<cacheFile, client, stored>>
    /\ UNCHANGED <<varsSel, varsName, varsRun>>

NextSample ==
    \/ SampleIsAvailable
    \/ \E request \in SampleRequests : SampleGenerateContent(request)
    \/ \E request \in SampleRequests :
         SampleGenerateAll(request.job_description, request.profile_content,
                           request.company_name, request.position_title)

SpecSample == InitSample /\ [][NextSample]_vars

\* C19: the sample client is available in every state, generate_content
\* returns a non-empty text of the requested type for each of the five
\* cover-letter content types, and generate_all_cover_letter_content returns
\* a non-empty text for each of the five, whatever the job and profile text.
C19_SampleAlwaysAnswers ==
    /\ client.provider = "sample" => is_available(client.provider, env)
    /\ last.op = "is_available" => last.response = TRUE
    /\ (last.op = "generate_content"
            /\ last.request.content_type.value \in CoverLetterTypes) =>
        /\ last.raised = "none"
        /\ last.response.content_type = last.request.content_type
        /\ last.response.generated_text # ""
    /\ last.op = "generate_all_cover_letter_content" =>
        /\ last.raised = "none"
        /\ DOMAIN last.response = CoverLetterTypes
        /\ \A k \in CoverLetterTypes : last.response[k] # ""

\* generate_content was asked for mehrwert with an empty job description and an
\* empty profile, and answered with the sample text.
C19_Witness ==
    /\ client.provider = "sample"
    /\ last.op = "generate_content"
    /\ last.request.content_type = EnumOf("mehrwert")
    /\ last.request.job_description = EmptyText
    /\ last.request.profile_content = EmptyText
    /\ last.response.generated_text = "In meinen bisherigen Projekten"

-----------------------------------------------------------------------------
(* Claims on step 0                                                         *)

\* Step 0 is over and it called clear_ai_content_cache.
CacheClearingCalled == last.op = "clear_ai_content_cache"

\* What step 0 has to have done when the cache is to be cleared under the
\* condition given: the call is made unless --keep-cache was given, with
\* force exactly for --clear-cache; it does not raise; it returns True and the
\* file is gone if the condition holds, else it returns False and the file is
\* as it was before the call.
Step0Policy(Clears(_, _)) ==
    /\ (pc # "step0" /\ args.keep_cache) => ~CacheClearingCalled
    /\ (pc # "step0" /\ ~args.keep_cache) =>
          CacheClearingCalled /\ last.request.force = args.clear_cache
    /\ CacheClearingCalled =>
          /\ last.raised = "none"
          /\ last.response = Clears(last.request.file, last.request.force)
          /\ cacheFile = IF Clears(last.request.file, last.request.force)
                         THEN [exists |-> FALSE, entries |-> EmptyCache]
                         ELSE last.request.file

\* C20 as stated: clear_ai_content_cache(force) deletes the cache file and
\* returns True exactly when the file exists and force is true or
\* CLEAR_CACHE_ON_START is not 'false'; otherwise it returns False and leaves
\* the file; it never raises; main does not call it with --keep-cache.
C20_AsStated ==
    LET Clears(file, force) ==
            file.exists /\ (force \/ env.CLEAR_CACHE_ON_START # "false")
    IN Step0Policy(Clears)

\* C20, amended: clear_ai_content_cache(force) deletes the cache file and
\* returns True exactly when the file exists, force is true or
\* CLEAR_CACHE_ON_START is unset or 'true' in any case of letters, and the
\* deletion succeeds; otherwise it returns False and leaves the file; it never
\* raises; main does not call it with --keep-cache, even with --clear-cache.
C20_Step0Policy ==
    LET Clears(file, force) ==
            /\ file.exists
            /\ force \/ env.CLEAR_CACHE_ON_START \in {"unset", "true", "True", "TRUE"}
            /\ env.unlink = "ok"
    IN Step0Policy(Clears)

\* Without --clear-cache and with CLEAR_CACHE_ON_START unset, step 0 deleted
\* an existing cache file and the call returned True.
C20_Witness ==
    /\ pc = "step1"
    /\ ~args.clear_cache
    /\ env.CLEAR_CACHE_ON_START = "unset"
    /\ CacheClearingCalled
    /\ last.request.file.exists
    /\ last.response = TRUE
    /\ ~cacheFile.exists

-----------------------------------------------------------------------------
(* Further claims on the selection of steps 1 and 2                         *)

\* C21: the file read_newest_profile returns has a name of the form 8 digits,
\* '_', identifier, '.pdf', and the file read_newest_job_description returns
\* one of the form 8 digits, '_', identifier, '.txt'.
C21_OnlyWellFormedNames ==
    /\ selProfile.kind = "file" => WellFormed(selProfile.name, PdfExt)
    /\ selJob.kind = "file" => WellFormed(selJob.name, TxtExt)

\* No matching file of the directory with the date of the selected one has a
\* name that sorts after the selected name.
SortsLastOfItsDate(dir, ext, sel) ==
    sel.kind = "file" =>
        \A m \in Matching(dir, ext) :
            DateGroup(m) = DateGroup(sel.name) => ~StrLess(sel.name, m)

\* C22: among the matching files that share the greatest date the selector
\* returns the one whose name sorts last, whatever the order of the listing.
C22_TieBreakByName ==
    /\ SortsLastOfItsDate(profilDir, PdfExt, selProfile)
    /\ SortsLastOfItsDate(stellenDir, TxtExt, selJob)

\* The number a sequence of digits denotes.
RECURSIVE DigitsValue(_)
DigitsValue(ds) ==
    IF ds = <<>> THEN 0
    ELSE 10 * DigitsValue(SubSeq(ds, 1, Len(ds) - 1))
         + (CHOOSE v \in 0..9 : OrdTable[Ord("0") + v] = ds[Len(ds)])

LeapYear(y) == (y % 4 = 0 /\ y % 100 # 0) \/ y % 400 = 0

DaysInMonth(y, m) ==
    IF m = 2 THEN (IF LeapYear(y) THEN 29 ELSE 28)
    ELSE IF m \in {4, 6, 9, 11} THEN 30 ELSE 31

\* YYYYMMDD is a date of the calendar.
ValidDate(date) ==
    LET y == DigitsValue(SubSeq(date, 1, 4))
        m == DigitsValue(SubSeq(date, 5, 6))
        d == DigitsValue(SubSeq(date, 7, 8))
    IN m \in 1..12 /\ d >= 1 /\ d <= DaysInMonth(y, m)

\* C23: the file a selector returns has a prefix that is a valid calendar
\* date.
C23_ValidDatesOnly ==
    /\ selProfile.kind = "file" => ValidDate(DateGroup(selProfile.name))
    /\ selJob.kind = "file" => ValidDate(DateGroup(selJob.name))

-----------------------------------------------------------------------------
(* Claims on a client and its cache over sequences of calls                 *)

\* C24: is_available() returns for the whole life of the client the value the
\* constructor set: no call of generate_content or of the cache, whether it
\* succeeds or fails, changes it.
C24_AvailabilityFixed ==
    [][client'.available = client.available]_vars

\* An available client whose provider call has just failed is still available.
C24_Witness ==
    /\ last.op = "generate"
    /\ last.providerCalled
    /\ last.outcome = "error"
    /\ client.available

\* C26: a generate_content call on an available client with caching on that
\* misses the cache and whose provider request succeeds returns the provider's
\* text and stores it in the cache file, whatever calls went before.
C26_MissStoresProviderText ==
    (last.op = "generate" /\ client.available /\ client.use_cache
        /\ last.providerCalled /\ last.outcome # "error") =>
        /\ last.response = ClaudeResponse(last.request, last.outcome)
        /\ cacheFile.exists
        /\ cacheFile.entries[generate_key(last.request)]
              = Present(ToDict(ClaudeResponse(last.request, last.outcome)))

-----------------------------------------------------------------------------
(* The cache file shared by the clients of a run (specification SpecShared) *)

\* The clients with a cache, in the order of get_all_available_clients.
CachingProviders == <<"llama", "claude">>

\* The content types in the order generate_all_cover_letter_content asks for them.
TypeOrder == <<"einstiegstext", "abschlusstext">>

\* The request generate_all_cover_letter_content builds for a content type.
RunRequest(content_type) ==
    [content_type |-> content_type, job_description |-> JobText,
     profile_content |-> ProfileText, company_name |-> "BWI GmbH",
     position_title |-> "Senior DevOps Engineer"]

\* The AIContentResponse built from a successful Ollama call.
LlamaResponse(request, text) ==
    [content_type |-> EnumOf(request.content_type), generated_text |-> text,
     confidence |-> "0.8", tokens_used |-> 2, processing_time |-> "dt",
     metadata |-> "model, provider: ollama"]

\* A generate_content that answers a miss with the sample response and stores it.
generate_content_caching_fallback(c, file, request, outcome) ==
    LET got == cache_get(c.mem, request)
        put == cache_set(c.mem, file, request, SampleResponse(request))
    IN IF got.hit
       THEN [raised |-> "none", response |-> got.response, mem |-> got.mem,
             file |-> file, providerCalled |-> FALSE]
       ELSE [raised |-> "none", response |-> SampleResponse(request),
             mem |-> put.mem, file |-> put.file, providerCalled |-> TRUE]

\* LlamaAPIClient.generate_content
llama_generate_content(c, file, request, outcome) ==
    LET got == IF c.use_cache THEN cache_get(c.mem, request)
               ELSE [raised |-> "none", hit |-> FALSE, response |-> NoResponse,
                     mem |-> c.mem]
        ai_response == LlamaResponse(request, outcome)
        put == cache_set(c.mem, file, request, ai_response)
        sample == [raised |-> "none", response |-> SampleResponse(request),
                   mem |-> c.mem, file |-> file, providerCalled |-> TRUE]
    IN IF got.raised # "none"
       THEN [raised |-> got.raised, response |-> NoResponse, mem |-> got.mem,
             file |-> file, providerCalled |-> FALSE]
       ELSE IF got.hit
       THEN [raised |-> "none", response |-> got.response, mem |-> got.mem,
             file |-> file, providerCalled |-> FALSE]
       ELSE IF ~c.available THEN [sample EXCEPT !.providerCalled = FALSE]
       ELSE IF outcome = "error" THEN sample
       ELSE IF ~c.use_cache THEN [sample EXCEPT !.response = ai_response]
       ELSE IF put.raised = "none"
       THEN [raised |-> "none", response |-> ai_response, mem |-> put.mem,
             file |-> put.file, providerCalled |-> TRUE]
       ELSE [sample EXCEPT !.mem = put.mem, !.file = put.file]

\* generate_content of the client's class.
client_generate_content(c, file, request, outcome) ==
    IF c.provider = "llama" THEN llama_generate_content(c, file, request, outcome)
    ELSE generate_content(c, file, request, outcome)

\* The provider whose client built the response or the cache entry.
GeneratedBy(data) ==
    IF data.metadata = "model, provider: ollama" THEN "llama"
    ELSE IF data.metadata = "model, input_tokens, output_tokens" THEN "claude"
    ELSE IF data.metadata = "source: sample_content" THEN "sample"
    ELSE "unknown"

\* The constructor of a client with use_cache: its ContentCache loads the file.
NewClient(provider, file) ==
    [provider |-> provider, available |-> TRUE, use_cache |-> TRUE,
     mem |-> load_cache(file)]

\* get_all_available_clients: both clients are constructed before the loop.
NewClients(file) ==
    [p \in {"llama", "claude"} |-> NewClient(p, file)]

\* The position of the run: the client at work and the content type it asks
\* for next; client 0 when the loop is over.
LoopStart == [client |-> 1, type |-> 1]
LoopEnd == [client |-> 0, type |-> 1]

\* The first run, without a cache file or with an empty one.
InitShared ==
    /\ SelIdle
    /\ NameIdle
    /\ cacheFile \in { [exists |-> x, entries |-> EmptyCache] : x \in BOOLEAN }
    /\ client = NewClients(cacheFile)
    /\ stored = EmptyCache
    /\ last = NoLast
    /\ env = DefaultEnv
    /\ fcall = NoCall
    /\ pc = LoopStart
    /\ args = NoArgs
    /\ outDir = NoOutDir
    /\ gen = NoGen
    /\ exitCode = -1

\* One generate_content call of generate_all_cover_letter_content of the client
\* at work.  stored records the entries that set() has written in this run.
SharedGenerateContent(outcome) ==
    /\ pc.client # 0
    /\ LET p == CachingProviders[pc.client]
           request == RunRequest(TypeOrder[pc.type])
           r == client_generate_content(client[p], cacheFile, request, outcome)
           written == r.providerCalled /\ outcome # "error"
                      /\ GeneratedBy(r.response) = p
       IN /\ client' = [client EXCEPT ![p] = ClientAfter(@, r, outcome)]
          /\ cacheFile' = r.file
          /\ stored' = IF written
                       THEN [stored EXCEPT ![generate_key(request)] =
                                Present(ToDict(r.response))]
                       ELSE stored
          /\ last' = [op |-> "generate", request |-> request,
                      response |-> r.response, raised |-> r.raised,
                      providerCalled |-> r.providerCalled,
                      storedBefore |-> stored[generate_key(request)],
                      outcome |-> p]
          /\ pc' = IF r.raised # "none" THEN LoopEnd
                   ELSE IF pc.type < Len(TypeOrder)
                   THEN [pc EXCEPT !.type = @ + 1]
                   ELSE IF pc.client < Len(CachingProviders)
                   THEN [client |-> pc.client + 1, type |-> 1]
                   ELSE LoopEnd
    /\ UNCHANGED <<varsSel, varsName, env, fcall, args, outDir, gen, exitCode>>

\* The next run of the program with --keep-cache: new clients, which load the
\* cache file as the last run left it.
StartNextRun ==
    /\ pc = LoopEnd
    /\ client' = NewClients(cacheFile)
    /\ stored' = EmptyCache
    /\ last' = NoLast
    /\ pc' = LoopStart
    /\ UNCHANGED <<varsSel, varsName, cacheFile, env, fcall, args, outDir, gen,
                   exitCode>>

NextShared ==
    \/ \E outcome \in ProviderOutcomes : SharedGenerateContent(outcome)
    \/ StartNextRun

SpecShared == InitShared /\ [][NextShared]_vars

-----------------------------------------------------------------------------
(* Further claims on the header and on the shared cache                     *)

\* C29: _parse_adressat_line and extract_company_and_position return a result
\* and raise nothing, for every job description.
C29_ParserNeverRaises ==
    last.op \in {"_parse_adressat_line", "extract_company_and_position"} =>
        last.raised = "none"

\* The entry was built by a provider's client from a provider's answer.
FromProvider(e) == e.present => GeneratedBy(e.data) \in {"llama", "claude"}

-----------------------------------------------------------------------------
(* The output directory name of every pair of names (specification SpecDirName) *)

\* The names of SpecExtract and two whose identifier holds '-', a date and '_'.
DirNameProfiles == ExtractProfiles \cup {Compose(D0624, IdJoined, PdfExt)}
DirNameJobs == ExtractJobs \cup {Compose(D0604, IdJoined, TxtExt)}

\* Step 3 of a run on a pair of names.
CreateOutputDirectory ==
    /\ ret.op = "none"
    /\ \E p \in DirNameProfiles, j \in DirNameJobs : create_output_directory(p, j)

NextDirName == CreateOutputDirectory

SpecDirName == InitOutDir /\ [][NextDirName]_vars

\* The name create_output_directory gives the directory of a pair of names.
DirNameOf(profile, job) == output_dir_name(extract_file_identifiers(profile, job).value)

\* C28: two different pairs of well-formed profile and job names never get the
\* same output directory name.
C28_DirNameInjective ==
    (ret.op = "create" /\ ret.raised = "none"
        /\ WellFormed(argProfile, PdfExt) /\ WellFormed(argJob, TxtExt)) =>
        \A p \in DirNameProfiles, j \in DirNameJobs :
            (WellFormed(p, PdfExt) /\ WellFormed(j, TxtExt)
                /\ extract_file_identifiers(p, j).raised = "none"
                /\ <<p, j>> # <<argProfile, argJob>>)
                => DirNameOf(p, j) # ret.value

=============================================================================
